---- MODULE Spec2Model ----
(***************************************************************************)
(* Tax routines of opentax-next: the calculator component's calculateTax   *)
(* (TaxCalculator.tsx), the skew-protection and tax-optimizer utilities    *)
(* (fluidCompute.ts), the tax-information service's calculateTax and the   *)
(* slab calculator calculateTaxDirectly.                                   *)
(*                                                                         *)
(* Incomes, deductions and thresholds are whole rupees (Int).  Every       *)
(* computed amount is an exact decimal <<r, u>> standing for               *)
(* r + u / 10^6 rupees with 0 <= u < 10^6: the JavaScript numbers of the   *)
(* source are modelled as exact decimals with six fractional digits, which *)
(* is enough for every product of a whole-rupee amount with the rates of   *)
(* the source (two digits), the cess and surcharge on it (four digits) and *)
(* the cess on tax plus surcharge (six digits).                            *)
(***************************************************************************)
EXTENDS Integers, Sequences, FiniteSets, TLC

VARIABLES
    input, out,               \* a routine's arguments and what it last returned
    taxInputState,            \* the component's taxInput (useState)
    result, isCalculating, calculationProgress,
    optimizationSuggestions,  \* the other useState values of the component; the
                              \* suggestions are [] or the promise of
                              \* generateOptimizationSuggestions(taxInput, taxResult)
    lastCalculation,          \* preferences.lastCalculation of the preferences context
    run,                      \* where the component's calculateTax handler stands
    computedFrom,             \* history: the input the result on display came from
    saveCalls,                \* history: the calls of saveCalculation so far
    cache,                    \* the module's calculation cache, key -> value
    calls,                    \* the calls of fluidCalculate and where each stands
    executed,                 \* history: key -> the runs of the calculation function
                              \* under the key that did not throw, since the last clear
    started,                  \* history: the calls of fluidCalculate so far
    state,                    \* the AuthState of the AuthProvider (useState)
    now,                      \* Date.now(), in milliseconds
    authCall,                 \* the call of login or verifyTwoFactorCode under way
    authCalls,                \* history: the calls of login and verifyTwoFactorCode
    failures,                 \* history: the logins that failed since one succeeded
    onSuccessCalls            \* history: the calls of onSuccess by the login form

calculatorVars ==
    <<taxInputState, result, isCalculating, calculationProgress, optimizationSuggestions,
      lastCalculation, run, computedFrom, saveCalls>>

fluidVars == <<cache, calls, executed, started>>

authVars == <<state, now, authCall, authCalls, failures, onSuccessCalls>>

vars == <<input, out, calculatorVars, fluidVars, authVars>>

(***************************************************************************)
(* Exact decimal arithmetic                                                *)
(***************************************************************************)
Micro == 1000 * 1000

N(r) == <<r, 0>>

Dec(r, u) == <<r, u>>

Zero == N(0)

Add(a, b) == <<a[1] + b[1] + ((a[2] + b[2]) \div Micro), (a[2] + b[2]) % Micro>>

Neg(a) == IF a[2] = 0 THEN <<0 - a[1], 0>> ELSE <<0 - a[1] - 1, Micro - a[2]>>

Sub(a, b) == Add(a, Neg(b))

Lt(a, b) == a[1] < b[1] \/ (a[1] = b[1] /\ a[2] < b[2])

Le(a, b) == ~Lt(b, a)

Abs(a) == IF a[1] < 0 THEN Neg(a) ELSE a

MaxN(a, b) == IF Lt(a, b) THEN b ELSE a

MinN(a, b) == IF Lt(b, a) THEN b ELSE a

\* a * p / q for integers p >= 0 and q > 0 (the products of the source by a
\* decimal constant p / q), cut below the sixth fractional digit
MulRat(a, p, q) ==
    LET lowp == a[2] * p
        R    == a[1] * p + (lowp \div Micro)
        U    == lowp % Micro
    IN  <<R \div q, ((R % q) * Micro + U) \div q>>

\* the i-th of the six fractional digits of u (zero past the sixth)
Digit(u, i) == IF i > 6 THEN 0 ELSE (u \div (10 ^ (6 - i))) % 10

\* long division by d > 0 of the remainder rem followed by the fractional
\* digits i..last of u: <<quotient digits, remainder>>
RECURSIVE LongDiv(_, _, _, _, _, _)
LongDiv(q, rem, d, u, i, last) ==
    IF i > last THEN <<q, rem>>
    ELSE LET cur == rem * 10 + Digit(u, i)
         IN  LongDiv(q * 10 + (cur \div d), cur % d, d, u, i + 1, last)

\* a / d * 100 for a >= 0 and an integer d > 0, cut below the sixth digit
PercentOfPos(a, d) ==
    LET two == LongDiv(0, a[1] % d, d, a[2], 1, 2)
        six == LongDiv(0, two[2], d, a[2], 3, 8)
    IN  <<(a[1] \div d) * 100 + two[1], six[1]>>

\* a JavaScript quotient (a / d) * 100: a finite number, NaN for 0 / 0, or an
\* infinity for a non-zero amount over 0
Finite(v) == [kind |-> "finite", val |-> v]

NaN == [kind |-> "NaN", val |-> Zero]

Infinite(negative) ==
    [kind |-> IF negative THEN "-Infinity" ELSE "Infinity", val |-> Zero]

Percent(a, d) ==
    IF d = 0
      THEN IF a = Zero THEN NaN ELSE Infinite(a[1] < 0)
      ELSE LET q == PercentOfPos(Abs(a), IF d < 0 THEN 0 - d ELSE d)
           IN  Finite(IF (a[1] < 0) = (d < 0) THEN q ELSE Neg(q))

(***************************************************************************)
(* Skew protection (fluidCompute.ts, "Skew Protection Utility")            *)
(***************************************************************************)
RECURSIVE SumSeq(_)
SumSeq(parts) ==
    IF parts = <<>> THEN Zero ELSE Add(SumSeq(SubSeq(parts, 1, Len(parts) - 1)), parts[Len(parts)])

\* the default tolerance 0.01 of detectSkew, also the literal of correctSkew
\* and normalizeTaxComponents
Tolerance == Dec(0, 10000)

detectSkew(parts, expectedTotal) ==
    LET actualTotal == SumSeq(parts)
        difference  == Abs(Sub(expectedTotal, actualTotal))
    IN  [hasSkew        |-> Lt(Tolerance, difference),
         skewAmount     |-> Sub(expectedTotal, actualTotal),
         correctedValue |-> Add(actualTotal, Sub(expectedTotal, actualTotal))]

\* Math.max(...parts): -Infinity for no parts is never indexed, parts being
\* non-empty wherever the maximum is used
RECURSIVE MaxOf(_)
MaxOf(parts) ==
    IF Len(parts) = 1 THEN parts[1] ELSE MaxN(MaxOf(SubSeq(parts, 1, Len(parts) - 1)), parts[Len(parts)])

\* parts.indexOf(v): the first index holding v
IndexOf(parts, v) == CHOOSE i \in 1..Len(parts) : parts[i] = v /\ \A j \in 1..(i - 1) : parts[j] # v

correctSkew(parts, expectedTotal) ==
    LET actualTotal == SumSeq(parts)
        difference  == Sub(expectedTotal, actualTotal)
    IN  IF Lt(Abs(difference), Tolerance) THEN parts
        ELSE [index \in 1..Len(parts) |->
                IF index = IndexOf(parts, MaxOf(parts))
                  THEN Add(parts[index], difference)
                  ELSE parts[index]]

\* the slab tax of taxableIncome over referenceRates from bracket i on
RECURSIVE ExpectedTax(_, _, _, _)
ExpectedTax(referenceRates, i, remainingIncome, expectedTax) ==
    IF i > Len(referenceRates) THEN expectedTax
    ELSE LET threshold == referenceRates[i].threshold
             rate      == referenceRates[i].rate
             taxableInThisBracket ==
                 IF i < Len(referenceRates)
                   THEN IF remainingIncome < referenceRates[i + 1].threshold - threshold
                          THEN remainingIncome
                          ELSE referenceRates[i + 1].threshold - threshold
                   ELSE remainingIncome
             taxed     == taxableInThisBracket > 0
             expected2 == IF taxed THEN Add(expectedTax, MulRat(N(taxableInThisBracket), rate, 100))
                                   ELSE expectedTax
             remaining2 == IF taxed THEN remainingIncome - taxableInThisBracket ELSE remainingIncome
         IN  IF remaining2 <= 0 THEN expected2
             ELSE ExpectedTax(referenceRates, i + 1, remaining2, expected2)

\* a plausible slip: a difference equal to the tolerance replaced as well
validateTaxCalculation_AtTolerance(taxableIncome, calculatedTax, referenceRates) ==
    LET expectedTax == ExpectedTax(referenceRates, 1, taxableIncome, Zero)
        difference  == Abs(Sub(expectedTax, calculatedTax))
        tolerance   == MaxN(MulRat(expectedTax, 5, 1000), N(1))
    IN  IF Le(tolerance, difference) THEN expectedTax ELSE calculatedTax

validateTaxCalculation(taxableIncome, calculatedTax, referenceRates) ==
    LET expectedTax == ExpectedTax(referenceRates, 1, taxableIncome, Zero)
        difference  == Abs(Sub(expectedTax, calculatedTax))
        tolerance   == MaxN(MulRat(expectedTax, 5, 1000), N(1))
    IN  IF Lt(tolerance, difference) THEN expectedTax ELSE calculatedTax

\* components is the record {incomeTax, cess, surcharge}, whose keys and
\* values are read in insertion order
normalizeTaxComponents(components, total) ==
    LET values == <<components.incomeTax, components.cess, components.surcharge>>
        sum    == SumSeq(values)
        correctedValues == correctSkew(values, total)
    IN  IF Lt(Abs(Sub(sum, total)), Tolerance) THEN components
        ELSE [incomeTax |-> correctedValues[1],
              cess      |-> correctedValues[2],
              surcharge |-> correctedValues[3]]

(***************************************************************************)
(* The calculator component (TaxCalculator.tsx)                            *)
(***************************************************************************)
\* the rates are written in percent: 0.05 is 5
oldRegimeRates ==
    << [threshold |-> 0, rate |-> 0],
       [threshold |-> 250000, rate |-> 5],
       [threshold |-> 500000, rate |-> 20],
       [threshold |-> 1000000, rate |-> 30] >>

\* a plausible slip: the brackets of the year before kept as reference
newRegimeRates_Stale ==
    << [threshold |-> 0, rate |-> 0],
       [threshold |-> 300000, rate |-> 5],
       [threshold |-> 600000, rate |-> 10],
       [threshold |-> 900000, rate |-> 15],
       [threshold |-> 1200000, rate |-> 20],
       [threshold |-> 1500000, rate |-> 30] >>

newRegimeRates ==
    << [threshold |-> 0, rate |-> 0],
       [threshold |-> 300000, rate |-> 5],
       [threshold |-> 700000, rate |-> 10],
       [threshold |-> 1000000, rate |-> 15],
       [threshold |-> 1200000, rate |-> 20],
       [threshold |-> 1500000, rate |-> 30] >>

\* a plausible slip: the two standard deductions exchanged
StandardDeduction_Swapped(regime, isSalaried) ==
    IF isSalaried THEN (IF regime = "new" THEN 50000 ELSE 75000) ELSE 0

StandardDeduction(regime, isSalaried) ==
    IF isSalaried THEN (IF regime = "new" THEN 75000 ELSE 50000) ELSE 0

\* a plausible slip: the deductions subtracted whatever the regime
TaxableIncome_DeductionsAlways(in) ==
    LET t == in.income - StandardDeduction(in.regime, in.isSalaried) - in.deductions
    IN  IF t > 0 THEN t ELSE 0

TaxableIncome(in) ==
    LET t == in.income - StandardDeduction(in.regime, in.isSalaried)
               - (IF in.regime = "old" THEN in.deductions ELSE 0)
    IN  IF t > 0 THEN t ELSE 0

\* the if-chain of the old regime, before the rebate
OldSlabTax(taxableIncome) ==
    IF taxableIncome <= 250000 THEN Zero
    ELSE IF taxableIncome <= 500000 THEN MulRat(N(taxableIncome - 250000), 5, 100)
    ELSE IF taxableIncome <= 1000000
           THEN Add(N(12500), MulRat(N(taxableIncome - 500000), 20, 100))
    ELSE Add(N(112500), MulRat(N(taxableIncome - 1000000), 30, 100))

\* the if-chain of the new regime, before the rebate
NewSlabTax(taxableIncome) ==
    IF taxableIncome <= 300000 THEN Zero
    ELSE IF taxableIncome <= 700000 THEN MulRat(N(taxableIncome - 300000), 5, 100)
    ELSE IF taxableIncome <= 1000000
           THEN Add(N(20000), MulRat(N(taxableIncome - 700000), 10, 100))
    ELSE IF taxableIncome <= 1200000
           THEN Add(N(50000), MulRat(N(taxableIncome - 1000000), 15, 100))
    ELSE IF taxableIncome <= 1500000
           THEN Add(N(80000), MulRat(N(taxableIncome - 1200000), 20, 100))
    ELSE Add(N(140000), MulRat(N(taxableIncome - 1500000), 30, 100))

\* the rebate under section 87A
OldRebate(taxableIncome, incomeTax) ==
    IF taxableIncome <= 500000 THEN MaxN(Zero, Sub(incomeTax, N(12500))) ELSE incomeTax

NewRebate(taxableIncome, incomeTax) ==
    IF taxableIncome <= 700000 THEN MaxN(Zero, Sub(incomeTax, N(25000))) ELSE incomeTax

\* income tax of the calculator: slabs, rebate, then validateTaxCalculation
CalculatorIncomeTax(regime, taxableIncome) ==
    IF regime = "old"
      THEN validateTaxCalculation(taxableIncome,
               OldRebate(taxableIncome, OldSlabTax(taxableIncome)), oldRegimeRates)
      ELSE validateTaxCalculation(taxableIncome,
               NewRebate(taxableIncome, NewSlabTax(taxableIncome)), newRegimeRates)

Cess(incomeTax) == MulRat(incomeTax, 4, 100)

\* a plausible slip: the last tier forgotten
Surcharge_NoTopTier(taxableIncome, incomeTax) ==
    IF taxableIncome > 5000000 /\ taxableIncome <= 10000000 THEN MulRat(incomeTax, 10, 100)
    ELSE IF taxableIncome > 10000000 /\ taxableIncome <= 20000000 THEN MulRat(incomeTax, 15, 100)
    ELSE IF taxableIncome > 20000000 /\ taxableIncome <= 50000000 THEN MulRat(incomeTax, 25, 100)
    ELSE Zero

\* a plausible slip: the tiers closed below instead of above
Surcharge_ClosedBelow(taxableIncome, incomeTax) ==
    IF taxableIncome >= 5000000 /\ taxableIncome < 10000000 THEN MulRat(incomeTax, 10, 100)
    ELSE IF taxableIncome >= 10000000 /\ taxableIncome < 20000000 THEN MulRat(incomeTax, 15, 100)
    ELSE IF taxableIncome >= 20000000 /\ taxableIncome < 50000000 THEN MulRat(incomeTax, 25, 100)
    ELSE IF taxableIncome >= 50000000 THEN MulRat(incomeTax, 37, 100)
    ELSE Zero

Surcharge(taxableIncome, incomeTax) ==
    IF taxableIncome > 5000000 /\ taxableIncome <= 10000000 THEN MulRat(incomeTax, 10, 100)
    ELSE IF taxableIncome > 10000000 /\ taxableIncome <= 20000000 THEN MulRat(incomeTax, 15, 100)
    ELSE IF taxableIncome > 20000000 /\ taxableIncome <= 50000000 THEN MulRat(incomeTax, 25, 100)
    ELSE IF taxableIncome > 50000000 THEN MulRat(incomeTax, 37, 100)
    ELSE Zero

EffectiveRate(totalTax, taxableIncome) ==
    IF taxableIncome > 0 THEN Percent(totalTax, taxableIncome) ELSE Finite(Zero)

\* a plausible slip: the surcharge left out of the total
TotalTax_NoSurcharge(incomeTax, cess, surcharge) == Add(incomeTax, cess)

TotalTax(incomeTax, cess, surcharge) == Add(Add(incomeTax, cess), surcharge)

\* the calculation function handed to fluidCalculate
calculateTax(in) ==
    LET standardDeduction == StandardDeduction(in.regime, in.isSalaried)
        taxableIncome == TaxableIncome(in)
        incomeTax     == CalculatorIncomeTax(in.regime, taxableIncome)
        cess          == Cess(incomeTax)
        surcharge     == Surcharge(taxableIncome, incomeTax)
        totalTax      == TotalTax(incomeTax, cess, surcharge)
        effectiveRate == EffectiveRate(totalTax, taxableIncome)
        normalizedComponents ==
            normalizeTaxComponents(
                [incomeTax |-> incomeTax, cess |-> cess, surcharge |-> surcharge], totalTax)
        skewResult ==
            detectSkew(<<normalizedComponents.incomeTax, normalizedComponents.cess,
                         normalizedComponents.surcharge>>, totalTax)
    IN  [taxableIncome     |-> taxableIncome,
         incomeTax         |-> normalizedComponents.incomeTax,
         cess              |-> normalizedComponents.cess,
         surcharge         |-> normalizedComponents.surcharge,
         totalTax          |-> IF skewResult.hasSkew THEN skewResult.correctedValue ELSE totalTax,
         effectiveRate     |-> effectiveRate,
         standardDeduction |-> standardDeduction]

(***************************************************************************)
(* The tax optimizer (fluidCompute.ts, "Tax Optimizer Utility")            *)
(***************************************************************************)
ForRegimeTaxableIncome(in) ==
    LET standardDeduction == IF in.isSalaried THEN (IF in.regime = "new" THEN 75000 ELSE 50000) ELSE 0
        raw == in.income - standardDeduction - (IF in.regime = "old" THEN in.deductions ELSE 0)
    IN  IF raw > 0 THEN raw ELSE 0

\* the slabs and the rebate of calculateTaxForRegime, before the cess
ForRegimeTax(regime, taxableIncome) ==
    LET slabTax ==
            IF regime = "new"
              THEN IF taxableIncome <= 300000 THEN Zero
                   ELSE IF taxableIncome <= 700000 THEN MulRat(N(taxableIncome - 300000), 5, 100)
                   ELSE IF taxableIncome <= 1000000
                          THEN Add(N(20000), MulRat(N(taxableIncome - 700000), 10, 100))
                   ELSE IF taxableIncome <= 1200000
                          THEN Add(N(50000), MulRat(N(taxableIncome - 1000000), 15, 100))
                   ELSE IF taxableIncome <= 1500000
                          THEN Add(N(80000), MulRat(N(taxableIncome - 1200000), 20, 100))
                   ELSE Add(N(140000), MulRat(N(taxableIncome - 1500000), 30, 100))
              ELSE IF taxableIncome <= 250000 THEN Zero
                   ELSE IF taxableIncome <= 500000 THEN MulRat(N(taxableIncome - 250000), 5, 100)
                   ELSE IF taxableIncome <= 1000000
                          THEN Add(N(12500), MulRat(N(taxableIncome - 500000), 20, 100))
                   ELSE Add(N(112500), MulRat(N(taxableIncome - 1000000), 30, 100))
    IN  IF regime = "new"
          THEN IF taxableIncome <= 700000 THEN MaxN(Zero, Sub(slabTax, N(25000))) ELSE slabTax
          ELSE IF taxableIncome <= 500000 THEN MaxN(Zero, Sub(slabTax, N(12500))) ELSE slabTax

\* tax = tax * 1.04
calculateTaxForRegime(in) ==
    MulRat(ForRegimeTax(in.regime, ForRegimeTaxableIncome(in)), 104, 100)

(***************************************************************************)
(* The tax optimizer's suggestions (fluidCompute.ts, "Tax Optimizer")      *)
(***************************************************************************)
\* the marginal rate, in percent, read off the GROSS income
MarginalRate(income, regime) ==
    IF regime = "new"
      THEN IF income > 1500000 THEN 30
           ELSE IF income > 1200000 THEN 20
           ELSE IF income > 1000000 THEN 15
           ELSE IF income > 700000 THEN 10
           ELSE IF income > 300000 THEN 5
           ELSE 0
      ELSE IF income > 1000000 THEN 30
           ELSE IF income > 500000 THEN 20
           ELSE IF income > 250000 THEN 5
           ELSE 0

\* deductionAmount * marginalRate * 1.04
calculateMarginalTaxBenefit(income, deductionAmount, regime) ==
    MulRat(MulRat(N(deductionAmount), MarginalRate(income, regime), 100), 104, 100)

\* a suggestion; its title and description are display text, the description
\* repeating potentialSaving as a formatted string, and are left out
Suggestion(id, potentialSaving, applicability, complexity) ==
    [id |-> id, potentialSaving |-> potentialSaving,
     applicability |-> applicability, complexity |-> complexity]

\* a plausible slip: the switch suggested when the other regime is not dearer
RegimeSwitch_NotStrict(taxInput, oldRegimeTax, newRegimeTax) ==
    IF taxInput.regime = "old" /\ Le(newRegimeTax, oldRegimeTax)
      THEN <<Suggestion("switch-to-new", Sub(oldRegimeTax, newRegimeTax), 100, 20)>>
    ELSE IF taxInput.regime = "new" /\ Le(oldRegimeTax, newRegimeTax)
      THEN <<Suggestion("switch-to-old", Sub(newRegimeTax, oldRegimeTax), 100, 40)>>
    ELSE <<>>

\* "Suggest regime switch if beneficial": what the if / else if pushes
RegimeSwitch(taxInput, oldRegimeTax, newRegimeTax) ==
    IF taxInput.regime = "old" /\ Lt(newRegimeTax, oldRegimeTax)
      THEN <<Suggestion("switch-to-new", Sub(oldRegimeTax, newRegimeTax), 100, 20)>>
    ELSE IF taxInput.regime = "new" /\ Lt(oldRegimeTax, newRegimeTax)
      THEN <<Suggestion("switch-to-old", Sub(newRegimeTax, oldRegimeTax), 100, 40)>>
    ELSE <<>>

\* "For salaried employees, highlight standard deduction benefit"
StandardDeductionBenefit(taxInput) ==
    LET standardDeductionOld  == 50000
        standardDeductionNew  == 75000
        standardDeductionDiff == standardDeductionNew - standardDeductionOld
    IN  IF taxInput.isSalaried /\ taxInput.regime = "old"
          THEN <<Suggestion("standard-deduction-benefit",
                            calculateMarginalTaxBenefit(taxInput.income, standardDeductionDiff, "new"),
                            90, 10)>>
          ELSE <<>>

\* "For old regime, suggest maximizing deductions if not already at limit",
\* then the health insurance and the home loan interest suggestions
OldRegimeDeductions(taxInput) ==
    LET maxDeduction == 150000
        additionalDeduction == maxDeduction - taxInput.deductions
    IN  IF taxInput.regime = "old"
          THEN (IF taxInput.deductions < maxDeduction
                  THEN <<Suggestion("maximize-80c",
                                    calculateMarginalTaxBenefit(taxInput.income,
                                                                additionalDeduction, "old"),
                                    85, 50)>>
                  ELSE <<>>)
               \o <<Suggestion("health-insurance",
                               calculateMarginalTaxBenefit(taxInput.income, 25000, "old"), 75, 30),
                    Suggestion("home-loan-interest",
                               calculateMarginalTaxBenefit(taxInput.income, 200000, "old"), 60, 40)>>
          ELSE <<>>

\* "For new regime, highlight simplified compliance"
SimplifiedCompliance(taxInput) ==
    IF taxInput.regime = "old" /\ taxInput.deductions < 50000
      THEN <<Suggestion("simplified-compliance", Zero, 70, 10)>>
      ELSE <<>>

\* a plausible slip: an unstable order, the later of two equal savings first
InsertBySaving_BeforeEqual(sorted, s) ==
    LET before == {i \in 1..Len(sorted) : Lt(s.potentialSaving, sorted[i].potentialSaving)}
        k      == Cardinality(before)
    IN  SubSeq(sorted, 1, k) \o <<s>> \o SubSeq(sorted, k + 1, Len(sorted))

\* s put into a list already in order: after every suggestion that saves as
\* much or more, the sort of Array.prototype.sort being stable
InsertBySaving(sorted, s) ==
    LET before == {i \in 1..Len(sorted) : Le(s.potentialSaving, sorted[i].potentialSaving)}
        k      == Cardinality(before)
    IN  SubSeq(sorted, 1, k) \o <<s>> \o SubSeq(sorted, k + 1, Len(sorted))

\* suggestions.sort((a, b) => b.potentialSaving - a.potentialSaving)
RECURSIVE SortBySaving(_)
SortBySaving(suggestions) ==
    IF suggestions = <<>> THEN <<>>
    ELSE InsertBySaving(SortBySaving(SubSeq(suggestions, 1, Len(suggestions) - 1)),
                        suggestions[Len(suggestions)])

\* the suggestions in the order they are pushed
PushedSuggestions(taxInput) ==
    LET oldRegimeTax == calculateTaxForRegime([taxInput EXCEPT !.regime = "old"])
        newRegimeTax == calculateTaxForRegime([taxInput EXCEPT !.regime = "new"])
    IN  RegimeSwitch(taxInput, oldRegimeTax, newRegimeTax)
            \o StandardDeductionBenefit(taxInput)
            \o OldRegimeDeductions(taxInput)
            \o SimplifiedCompliance(taxInput)

\* taxResult is not read
generateOptimizationSuggestions(taxInput, taxResult) ==
    SortBySaving(PushedSuggestions(taxInput))

(***************************************************************************)
(* The tax-information service                                             *)
(***************************************************************************)
\* max: null is the empty tuple, max: m the tuple <<m>>
TAX_SLABS_2024_25 ==
    << [regime |-> "new", financialYear |-> "2024-25",
        slabs |-> << [min |-> 0, max |-> <<300000>>, rate |-> 0],
                     [min |-> 300000, max |-> <<600000>>, rate |-> 5],
                     [min |-> 600000, max |-> <<900000>>, rate |-> 10],
                     [min |-> 900000, max |-> <<1200000>>, rate |-> 15],
                     [min |-> 1200000, max |-> <<1500000>>, rate |-> 20],
                     [min |-> 1500000, max |-> <<>>, rate |-> 30] >>],
       [regime |-> "old", financialYear |-> "2024-25",
        slabs |-> << [min |-> 0, max |-> <<250000>>, rate |-> 0],
                     [min |-> 250000, max |-> <<500000>>, rate |-> 5],
                     [min |-> 500000, max |-> <<1000000>>, rate |-> 20],
                     [min |-> 1000000, max |-> <<>>, rate |-> 30] >>] >>

getTaxSlabs(financialYear) == TAX_SLABS_2024_25

\* the loop over taxSlabs.slabs from slab i on
RECURSIVE ServiceSlabTax(_, _, _, _)
ServiceSlabTax(slabs, i, remainingIncome, incomeTax) ==
    IF i > Len(slabs) \/ remainingIncome <= 0 THEN incomeTax
    ELSE LET slab == slabs[i]
             slabAmount ==
                 IF slab.max = <<>> THEN remainingIncome
                 ELSE IF remainingIncome < slab.max[1] - slab.min THEN remainingIncome
                 ELSE slab.max[1] - slab.min
         IN  ServiceSlabTax(slabs, i + 1, remainingIncome - slabAmount,
                            Add(incomeTax, MulRat(N(slabAmount), slab.rate, 100)))

serviceCalculateTax(income, deductions, regime) ==
    LET table == getTaxSlabs("2024-25")
        found == {k \in 1..Len(table) : table[k].regime = regime}
    IN  IF found = {}
          THEN [thrown |-> TRUE]
          ELSE
            LET taxSlabs == table[CHOOSE k \in found : \A j \in found : k <= j]
                taxableIncome ==
                    IF regime = "old"
                      THEN (IF income - deductions > 0 THEN income - deductions ELSE 0)
                      ELSE income
                incomeTax == ServiceSlabTax(taxSlabs.slabs, 1, taxableIncome, Zero)
                surcharge ==
                    IF taxableIncome > 5000000 /\ taxableIncome <= 10000000
                      THEN MulRat(incomeTax, 10, 100)
                    ELSE IF taxableIncome > 10000000 /\ taxableIncome <= 20000000
                      THEN MulRat(incomeTax, 15, 100)
                    ELSE IF taxableIncome > 20000000 /\ taxableIncome <= 50000000
                      THEN MulRat(incomeTax, 25, 100)
                    ELSE IF taxableIncome > 50000000
                      THEN MulRat(incomeTax, 37, 100)
                    ELSE Zero
                cess == MulRat(Add(incomeTax, surcharge), 4, 100)
                totalTax == Add(Add(incomeTax, surcharge), cess)
            IN  [thrown           |-> FALSE,
                 taxableIncome    |-> taxableIncome,
                 incomeTax        |-> incomeTax,
                 surcharge        |-> surcharge,
                 cess             |-> cess,
                 totalTax         |-> totalTax,
                 effectiveTaxRate |-> Percent(totalTax, income)]

(***************************************************************************)
(* The slab calculator component: calculateTaxDirectly                     *)
(***************************************************************************)
\* the limit Infinity of the last slab, above every income of the model
Infinity == 2147483647

newRegimeSlabs ==
    << [limit |-> 300000, rate |-> 0],
       [limit |-> 600000, rate |-> 5],
       [limit |-> 900000, rate |-> 10],
       [limit |-> 1200000, rate |-> 15],
       [limit |-> 1500000, rate |-> 20],
       [limit |-> Infinity, rate |-> 30] >>

oldRegimeSlabs ==
    << [limit |-> 250000, rate |-> 0],
       [limit |-> 500000, rate |-> 5],
       [limit |-> 1000000, rate |-> 20],
       [limit |-> Infinity, rate |-> 30] >>

seniorCitizenLimit == 300000

superSeniorCitizenLimit == 500000

\* a plausible slip: the senior limit given only after the age of 60
DirectSlabs_SeniorAfter60(regime, age) ==
    IF regime = "old" /\ age > 60 /\ age < 80
      THEN <<[limit |-> seniorCitizenLimit, rate |-> 0]>>
             \o SubSeq(oldRegimeSlabs, 2, Len(oldRegimeSlabs))
    ELSE IF regime = "old" /\ age >= 80
      THEN <<[limit |-> superSeniorCitizenLimit, rate |-> 0]>>
             \o SubSeq(oldRegimeSlabs, 3, Len(oldRegimeSlabs))
    ELSE IF regime = "new" THEN newRegimeSlabs ELSE oldRegimeSlabs

\* the slabs chosen for the regime and the age
DirectSlabs(regime, age) ==
    IF regime = "old" /\ age >= 60 /\ age < 80
      THEN <<[limit |-> seniorCitizenLimit, rate |-> 0]>>
             \o SubSeq(oldRegimeSlabs, 2, Len(oldRegimeSlabs))
    ELSE IF regime = "old" /\ age >= 80
      THEN <<[limit |-> superSeniorCitizenLimit, rate |-> 0]>>
             \o SubSeq(oldRegimeSlabs, 3, Len(oldRegimeSlabs))
    ELSE IF regime = "new" THEN newRegimeSlabs ELSE oldRegimeSlabs

\* a plausible slip: the slab width not applied, all that remains taxed here
TaxableInThisSlab_NoWidth(remainingIncome, slabWidth) == remainingIncome

\* Math.min(remainingIncome, slabWidth)
TaxableInThisSlab(remainingIncome, slabWidth) ==
    IF remainingIncome < slabWidth THEN remainingIncome ELSE slabWidth

\* the loop over slabs from slab i on: <<tax, taxBreakdown>>
RECURSIVE DirectLoop(_, _, _, _, _)
DirectLoop(slabs, i, remainingIncome, tax, taxBreakdown) ==
    IF i > Len(slabs) THEN <<tax, taxBreakdown>>
    ELSE LET currentSlab == slabs[i]
             prevLimit   == IF i > 1 THEN slabs[i - 1].limit ELSE 0
             slabWidth   == currentSlab.limit - prevLimit
             taxableInThisSlab == TaxableInThisSlab(remainingIncome, slabWidth)
             taxForThisSlab    == MulRat(N(taxableInThisSlab), currentSlab.rate, 100)
             breakdown2 ==
                 IF taxableInThisSlab > 0
                   THEN Append(taxBreakdown,
                               [slabStart     |-> prevLimit,
                                slabEnd       |-> currentSlab.limit,
                                rate          |-> currentSlab.rate,
                                taxableAmount |-> taxableInThisSlab,
                                tax           |-> taxForThisSlab])
                   ELSE taxBreakdown
             tax2       == Add(tax, taxForThisSlab)
             remaining2 == remainingIncome - taxableInThisSlab
         IN  IF remaining2 <= 0 THEN <<tax2, breakdown2>>
             ELSE DirectLoop(slabs, i + 1, remaining2, tax2, breakdown2)

calculateTaxDirectly(salary, otherIncome, totalDeductions, age, regime) ==
    LET totalIncome == salary + otherIncome
        taxableIncome ==
            IF regime = "old"
              THEN (IF totalIncome - totalDeductions > 0 THEN totalIncome - totalDeductions ELSE 0)
              ELSE totalIncome
        loop == DirectLoop(DirectSlabs(regime, age), 1, taxableIncome, Zero, <<>>)
        tax  == loop[1]
        cess == MulRat(tax, 4, 100)
    IN  [totalIncome   |-> totalIncome,
         taxableIncome |-> taxableIncome,
         taxBreakdown  |-> loop[2],
         basicTax      |-> tax,
         cess          |-> cess,
         totalTax      |-> Add(tax, cess),
         effectiveRate |-> IF totalIncome > 0 THEN Percent(Add(tax, cess), totalIncome)
                                              ELSE Finite(Zero)]

(***************************************************************************)
(* fluidCalculate and its cache (fluidCompute.ts, "Fluid Compute Utility") *)
(***************************************************************************)
\* null is the empty tuple, a value v the tuple <<v>>
Null == <<>>

DeviceTiers == {"low", "medium", "high"}

getPrecisionForDeviceTier(deviceTier) ==
    IF deviceTier = "high" THEN 2 ELSE IF deviceTier = "medium" THEN 1 ELSE 0

\* the merged options for a detected tier; options.precision, when given,
\* overrides the precision of the tier
MergedOptions(deviceTier, options) ==
    [precision |-> IF options.precision = Null THEN getPrecisionForDeviceTier(deviceTier)
                                                ELSE options.precision[1],
     useCache               |-> TRUE,
     progressiveComputation |-> deviceTier = "low",
     useWebWorker           |-> deviceTier = "high"]

\* a plausible slip: the key without the isSalaried status
generateCacheKey_NoSalaried(in, options) ==
    <<"tax", in.income, in.deductions, in.regime, options.precision>>

\* `tax_${income}_${deductions}_${regime}_${isSalaried}_${options.precision}`:
\* the fields are numbers, old / new and true / false, none of which holds
\* the separator, so the string is the tuple of its fields
generateCacheKey(in, options) ==
    <<"tax", in.income, in.deductions, in.regime, in.isSalaried, options.precision>>

\* executeProgressively: precision: Math.max(0, options.precision - 1)
SimplifiedOptions(options) ==
    [options EXCEPT !.precision = IF options.precision - 1 > 0 THEN options.precision - 1 ELSE 0]

\* the cache after cache.set(cacheKey, value)
CacheSet(cacheKey, value) ==
    [k \in DOMAIN cache \cup {cacheKey} |-> IF k = cacheKey THEN value ELSE cache[k]]

(***************************************************************************)
(* The state before the component is used and before fluidCalculate is     *)
(* called                                                                  *)
(***************************************************************************)
\* the calls of fluidCalculate that may be under way together
CallIds == {1, 2}

\* the module's cache is empty and no call was made
FluidInit ==
    /\ cache = <<>>
    /\ calls = [c \in CallIds |-> [pc |-> "idle"]]
    /\ executed = <<>>
    /\ started = 0

\* the unmounted component: the initial values of its useState calls
CalculatorInit ==
    /\ taxInputState = [income |-> 0, deductions |-> 0, regime |-> "new", isSalaried |-> TRUE]
    /\ result = Null
    /\ isCalculating = FALSE
    /\ calculationProgress = 0
    /\ optimizationSuggestions = [promise |-> FALSE, value |-> <<>>]
    /\ lastCalculation = Null
    /\ run = [pc |-> "idle", ended |-> "never"]
    /\ computedFrom = Null
    /\ saveCalls = 0

\* the AuthProvider before its mount effect has run: the initial AuthState
AuthInit ==
    /\ state = [user |-> Null, isLoading |-> TRUE, isAuthenticated |-> FALSE,
                loginAttempts |-> 0, accountLocked |-> FALSE, lockoutUntil |-> Null,
                requiresTwoFactor |-> FALSE, error |-> Null]
    /\ now = 0
    /\ authCall = [pc |-> "checkAuth"]
    /\ authCalls = 0
    /\ failures = 0
    /\ onSuccessCalls = 0

(***************************************************************************)
(* Inputs of the model                                                     *)
(***************************************************************************)
\* the incomes k * GridStep for k in -1 .. MaxGrid
MaxGrid == 64

GridStep == 25 * 1000

SurchargeThresholds == {5000000, 10000000, 20000000, 50000000}

\* incomes around each surcharge threshold, reaching it with either standard
\* deduction, incomes a few rupees past the slab and rebate thresholds, and
\* the income 6000000 inside the first surcharge tier
Incomes ==
    {k * GridStep : k \in (0 - 1)..MaxGrid}
      \cup {t + k * GridStep : t \in SurchargeThresholds, k \in 0..4}
      \cup {250020, 250021, 300020, 300021, 500001, 700001, 5000001, 6000000}

Deductions == {0, 150000}

Regimes == {"old", "new"}

\* a regime value outside the type 'old' | 'new'
UnknownRegime == "other"

Ages == {30, 59, 60, 79, 80}

OtherIncomes == {0, GridStep}

\* what handleInputChange also lets through: negative deductions
NegativeDeductionInputs ==
    [income : {24 * GridStep}, deductions : {0 - GridStep}, regime : Regimes, isSalaried : BOOLEAN]

\* deductions of 400000, large enough for the old regime to be the cheaper
LargeDeductionInputs ==
    [income : {36 * GridStep}, deductions : {16 * GridStep}, regime : Regimes, isSalaried : BOOLEAN]

Inputs ==
    [income : Incomes, deductions : Deductions, regime : Regimes, isSalaried : BOOLEAN]
        \cup NegativeDeductionInputs \cup LargeDeductionInputs

(***************************************************************************)
(* The state: an input record and the result of the last routine run on it *)
(***************************************************************************)
Init ==
    /\ input \in Inputs
    /\ out = [routine |-> "none"]
    /\ CalculatorInit
    /\ FluidInit
    /\ AuthInit

\* the calculator component computes the tax of the input
Calculate ==
    /\ out' = [routine |-> "calculator", result |-> calculateTax(input)]
    /\ UNCHANGED <<input, calculatorVars, fluidVars, authVars>>

\* the tax optimizer computes the total tax of the input for its regime
CalculateForRegime ==
    /\ out' = [routine |-> "forRegime", tax |-> calculateTaxForRegime(input)]
    /\ UNCHANGED <<input, calculatorVars, fluidVars, authVars>>

\* the tax-information service computes the tax of the input, for the regime
\* of the input or for a regime value that is neither 'old' nor 'new'
ServiceCalculate ==
    \E regime \in {input.regime, UnknownRegime} :
        /\ out' = [routine |-> "service", regime |-> regime,
                   result  |-> serviceCalculateTax(input.income, input.deductions, regime)]
        /\ UNCHANGED <<input, calculatorVars, fluidVars, authVars>>

\* the slab calculator computes the tax of the input for an age and some
\* other income
CalculateDirectly ==
    \E age \in Ages, otherIncome \in OtherIncomes :
        /\ out' = [routine |-> "direct", age |-> age, otherIncome |-> otherIncome,
                   result  |-> calculateTaxDirectly(input.income, otherIncome,
                                                    input.deductions, age, input.regime)]
        /\ UNCHANGED <<input, calculatorVars, fluidVars, authVars>>

\* the tax optimizer lists its suggestions for the input and its result
GenerateSuggestions ==
    /\ out' = [routine     |-> "suggestions",
               suggestions |-> generateOptimizationSuggestions(input, calculateTax(input))]
    /\ UNCHANGED <<input, calculatorVars, fluidVars, authVars>>

\* the reference rates the calculator hands to validateTaxCalculation
ReferenceRates(regime) == IF regime = "old" THEN oldRegimeRates ELSE newRegimeRates

\* the taxes a caller may hand to validateTaxCalculation for a slab tax: the
\* slab tax itself, the slab tax less the rebate of the regime, and the slab
\* tax raised by exactly the tolerance and by a millionth more
CalculatedTaxes(regime, slabTax) ==
    LET tolerance == MaxN(MulRat(slabTax, 5, 1000), N(1))
        rebate    == IF regime = "old" THEN N(12500) ELSE N(25000)
    IN  {slabTax, MaxN(Zero, Sub(slabTax, rebate)),
         Add(slabTax, tolerance), Add(Add(slabTax, tolerance), Dec(0, 1))}

\* validateTaxCalculation is run on the taxable income of the input and a
\* calculated tax
Validate ==
    LET taxableIncome == TaxableIncome(input)
        referenceRates == ReferenceRates(input.regime)
    IN  \E calculatedTax \in
                CalculatedTaxes(input.regime, ExpectedTax(referenceRates, 1, taxableIncome, Zero)) :
            /\ out' = [routine |-> "validate", taxableIncome |-> taxableIncome,
                       calculatedTax |-> calculatedTax,
                       result |-> validateTaxCalculation(taxableIncome, calculatedTax,
                                                         referenceRates)]
            /\ UNCHANGED <<input, calculatorVars, fluidVars, authVars>>

Next ==
    \/ Validate
    \/ Calculate
    \/ CalculateForRegime
    \/ ServiceCalculate
    \/ CalculateDirectly
    \/ GenerateSuggestions

Spec == Init /\ [][Next]_vars

(***************************************************************************)
(* The routines that take no tax input: the skew utilities on their own    *)
(* and the lookup of the bracket tables.  Here the input is a list of      *)
(* parts and the total they are expected to sum to.                        *)
(***************************************************************************)
\* the longest list of parts
MaxParts == 3

\* the values a part takes: 0, 4.001, 4.01, 100.004, 4, 100 and -4
PartValues == {Zero, Dec(4, 1000), Dec(4, 10000), Dec(100, 4000), N(4), N(100), Neg(N(4))}

PartsLists == UNION {[1..n -> PartValues] : n \in 0..MaxParts}

\* the expected totals: 104, 104.005, 100 and 108
ExpectedTotals == {N(104), Dec(104, 5000), N(100), N(108)}

UtilInputs == [parts : PartsLists, expectedTotal : ExpectedTotals]

\* the financial years a caller asks for
FinancialYears == {"2023-24", "2024-25", "2025-26"}

InitUtil ==
    /\ input \in UtilInputs
    /\ out = [routine |-> "none"]
    /\ CalculatorInit
    /\ FluidInit
    /\ AuthInit

\* correctSkew is run on the parts and the expected total; it has no throw
\* statement and assigns to no element of parts
CorrectSkew ==
    /\ out' = [routine |-> "correctSkew", thrown |-> FALSE,
               result  |-> correctSkew(input.parts, input.expectedTotal)]
    /\ UNCHANGED <<input, calculatorVars, fluidVars, authVars>>

\* detectSkew is run on the parts and the expected total
DetectSkew ==
    /\ out' = [routine |-> "detectSkew", thrown |-> FALSE,
               result  |-> detectSkew(input.parts, input.expectedTotal)]
    /\ UNCHANGED <<input, calculatorVars, fluidVars, authVars>>

\* normalizeTaxComponents is run on three parts as the components incomeTax,
\* cess and surcharge
NormalizeTaxComponents ==
    /\ Len(input.parts) = 3
    /\ out' = [routine |-> "normalizeTaxComponents", thrown |-> FALSE,
               result  |-> normalizeTaxComponents(
                               [incomeTax |-> input.parts[1], cess |-> input.parts[2],
                                surcharge |-> input.parts[3]], input.expectedTotal)]
    /\ UNCHANGED <<input, calculatorVars, fluidVars, authVars>>

\* a caller asks the tax-information service for the slabs of a year
GetTaxSlabs ==
    \E financialYear \in FinancialYears :
        /\ out' = [routine |-> "getTaxSlabs", financialYear |-> financialYear,
                   result  |-> getTaxSlabs(financialYear)]
        /\ UNCHANGED <<input, calculatorVars, fluidVars, authVars>>

NextUtil == CorrectSkew \/ DetectSkew \/ NormalizeTaxComponents \/ GetTaxSlabs

SpecUtil == InitUtil /\ [][NextUtil]_vars

(***************************************************************************)
(* Calls of fluidCalculate.  A call stands at the await of                 *)
(* detectDeviceTier, then, on a cache miss, at the setTimeout of           *)
(* executeProgressively or at the await of the calculation, and ends       *)
(* resolved or rejected.  The calculation may throw.                       *)
(***************************************************************************)
\* the call the calculator component makes
ComponentCall == 1

\* the most calls of fluidCalculate in a behaviour
MaxCalls == 2

\* the calculation function handed to fluidCalculate, the calculator's: it
\* reads its input and not its options
calculationFn(in, options) == calculateTax(in)

\* the inputs of the calls: one income under the new regime, salaried or not
FluidInputs ==
    [income : {24 * GridStep}, deductions : {0}, regime : {"new"}, isSalaried : BOOLEAN]

\* the options of the calls: { precision: 2 } as the calculator passes, or none
FluidOptions == {[precision |-> <<2>>], [precision |-> Null]}

\* a call is over, or was never made
Settled(c) == calls[c].pc \in {"idle", "resolved", "rejected"}

\* the count of runs after one more run under a key
Counted(cacheKey) ==
    [k \in DOMAIN executed \cup {cacheKey} |->
        IF k \in DOMAIN executed
          THEN (IF k = cacheKey THEN executed[k] + 1 ELSE executed[k])
          ELSE 1]

\* calculationFn(input, mergedOptions) is entered: the call waits for its
\* promise.  The function reads its input only, so what it returns is fixed
\* when fluidCalculate is called and is held in calls[c].returns since then.
Execution(c, in, options, mergedOptions, cacheKey, path, rejects) ==
    /\ calls' = [calls EXCEPT ![c] =
                    [pc |-> "calculation", input |-> in, options |-> options,
                     cacheKey |-> cacheKey, path |-> path, rejects |-> rejects,
                     value |-> calls[c].returns]]
    /\ executed' = IF rejects THEN executed ELSE Counted(cacheKey)
    \* the calculator's function ends with setCalculationProgress(100)
    /\ calculationProgress' =
           IF c = ComponentCall /\ run.pc = "awaiting" /\ ~rejects
             THEN 100 ELSE calculationProgress

\* fluidCalculate(calculationFn, in, options) is called
FluidCalculate(c, in, options) ==
    /\ Settled(c)
    /\ started' = started + 1
    /\ calls' = [calls EXCEPT ![c] = [pc |-> "detectDeviceTier", input |-> in,
                                      options |-> options,
                                      returns |-> calculationFn(in, options)]]
    /\ UNCHANGED <<cache, executed>>

\* detectDeviceTier resolves; the cache is looked up and, on a miss, the
\* path is taken that the merged options name
DeviceTierDetected(c) ==
    /\ calls[c].pc = "detectDeviceTier"
    /\ \E deviceTier \in DeviceTiers, workerDefined \in BOOLEAN, rejects \in BOOLEAN :
          LET in == calls[c].input
              mergedOptions == MergedOptions(deviceTier, calls[c].options)
              cacheKey == generateCacheKey(in, mergedOptions)
          IN  IF cacheKey \in DOMAIN cache
                THEN /\ calls' = [calls EXCEPT ![c] =
                                     [pc |-> "resolved", input |-> in, path |-> "cache",
                                      value |-> cache[cacheKey]]]
                     /\ UNCHANGED <<executed, calculationProgress>>
              ELSE IF mergedOptions.useWebWorker /\ workerDefined
                THEN Execution(c, in, calls[c].options, mergedOptions, cacheKey,
                               "worker", rejects)
              ELSE IF mergedOptions.progressiveComputation
                THEN /\ calls' = [calls EXCEPT ![c] =
                                     [pc |-> "setTimeout", input |-> in,
                                      options |-> calls[c].options,
                                      returns |-> calls[c].returns,
                                      mergedOptions |-> mergedOptions,
                                      cacheKey |-> cacheKey]]
                     /\ UNCHANGED <<executed, calculationProgress>>
              ELSE Execution(c, in, calls[c].options, mergedOptions, cacheKey,
                             "standard", rejects)
    /\ UNCHANGED <<cache, started>>

\* the timer of executeProgressively fires
ProgressiveTimeout(c) ==
    /\ calls[c].pc = "setTimeout"
    /\ \E rejects \in BOOLEAN :
          Execution(c, calls[c].input, calls[c].options,
                    SimplifiedOptions(calls[c].mergedOptions), calls[c].cacheKey,
                    "progressive", rejects)
    /\ UNCHANGED <<cache, started>>

\* the promise of the calculation settles: a value is cached and returned, a
\* rejection passes through
CalculationSettled(c) ==
    /\ calls[c].pc = "calculation"
    /\ IF calls[c].rejects
         THEN /\ calls' = [calls EXCEPT ![c] = [pc |-> "rejected", input |-> calls[c].input,
                                                path |-> calls[c].path]]
              /\ UNCHANGED cache
         ELSE /\ cache' = CacheSet(calls[c].cacheKey, calls[c].value)
              /\ calls' = [calls EXCEPT ![c] = [pc |-> "resolved", input |-> calls[c].input,
                                                path |-> calls[c].path,
                                                value |-> calls[c].value]]
    /\ UNCHANGED <<executed, started, calculationProgress>>

\* clearCalculationCache()
ClearCalculationCache ==
    /\ cache # <<>>
    /\ cache' = <<>>
    /\ executed' = <<>>
    /\ UNCHANGED <<calls, started, calculationProgress>>

\* what a step of fluidCalculate leaves alone
FluidFrame ==
    UNCHANGED <<input, out, taxInputState, result, isCalculating, optimizationSuggestions,
                lastCalculation, run, computedFrom, saveCalls, authVars>>

InitFluid ==
    /\ input = Null
    /\ out = [routine |-> "none"]
    /\ CalculatorInit
    /\ FluidInit
    /\ AuthInit

NextFluid ==
    \/ \E c \in CallIds, in \in FluidInputs, options \in FluidOptions :
           /\ started < MaxCalls
           /\ FluidCalculate(c, in, options)
           /\ FluidFrame /\ UNCHANGED calculationProgress
    \/ \E c \in CallIds : DeviceTierDetected(c) /\ FluidFrame
    \/ \E c \in CallIds : ProgressiveTimeout(c) /\ FluidFrame
    \/ \E c \in CallIds : CalculationSettled(c) /\ FluidFrame
    \/ ClearCalculationCache /\ FluidFrame

SpecFluid == InitFluid /\ [][NextFluid]_vars

(***************************************************************************)
(* The calculator component (TaxCalculator.tsx): the user edits the form   *)
(* at any time, the calculate button starts calculateTax unless a run is   *)
(* under way, and the run ends when its call of fluidCalculate has         *)
(* settled.                                                                *)
(***************************************************************************)
\* the most clicks on the calculate button in a behaviour
MaxClicks == 1

\* what the user types into a number field
TypedTexts == {"", "600000", "abc"}

\* parseFloat(value) || 0 on the typed texts
ParsedOrZero(value) ==
    LET parseFloat == IF value = "600000" THEN Finite(N(600000)) ELSE NaN
    IN  IF parseFloat.kind = "NaN" THEN 0 ELSE 600000

\* { precision: 2, cacheResults: true }: cacheResults is no option of
\* fluidCalculate and is not read
CalculatorOptions == [precision |-> <<2>>]

\* a plausible slip: the progress bar is left where it stood
Finally_KeepsProgress ==
    /\ isCalculating' = FALSE
    /\ UNCHANGED calculationProgress

\* finally { setIsCalculating(false); setCalculationProgress(0); }
Finally ==
    /\ isCalculating' = FALSE
    /\ calculationProgress' = 0

\* what an edit of the form leaves alone
EditFrame ==
    UNCHANGED <<input, out, result, isCalculating, calculationProgress,
                optimizationSuggestions, lastCalculation, run, computedFrom, saveCalls,
                fluidVars, authVars>>

\* handleInputChange on the income or the deductions field; the deductions
\* field is disabled under the new regime
HandleInputChange(name, value) ==
    /\ name = "deductions" => taxInputState.regime = "old"
    /\ taxInputState' =
           IF name = "income"
             THEN [taxInputState EXCEPT !.income = ParsedOrZero(value)]
             ELSE [taxInputState EXCEPT !.deductions = ParsedOrZero(value)]
    /\ EditFrame

HandleRegimeChange(regime) ==
    /\ taxInputState' = [taxInputState EXCEPT !.regime = regime]
    /\ EditFrame

HandleCheckboxChange(checked) ==
    /\ taxInputState' = [taxInputState EXCEPT !.isSalaried = checked]
    /\ EditFrame

\* a click on the button, which is disabled while isCalculating: calculateTax
\* runs up to its await of fluidCalculate(..., taxInput, ...)
ClickCalculate ==
    /\ ~isCalculating
    /\ started < MaxClicks
    /\ isCalculating' = TRUE
    /\ calculationProgress' = 10
    /\ FluidCalculate(ComponentCall, taxInputState, CalculatorOptions)
    /\ run' = [pc |-> "awaiting", taxInput |-> taxInputState]
    /\ UNCHANGED <<input, out, taxInputState, result, optimizationSuggestions,
                   lastCalculation, computedFrom, saveCalls, authVars>>

\* a step of the component's call of fluidCalculate
ComponentCallStep ==
    /\ run.pc = "awaiting"
    /\ \/ DeviceTierDetected(ComponentCall)
       \/ ProgressiveTimeout(ComponentCall)
       \/ CalculationSettled(ComponentCall)
    /\ FluidFrame

\* the await returns and its promise is dropped: setResult,
\* setOptimizationSuggestions with the promise that
\* generateOptimizationSuggestions(taxInput, taxResult) returned,
\* saveCalculation, then finally
CalculateResolved ==
    /\ run.pc = "awaiting"
    /\ calls[ComponentCall].pc = "resolved"
    /\ LET taxResult == calls[ComponentCall].value
       IN  /\ result' = <<taxResult>>
           /\ optimizationSuggestions' = [promise |-> TRUE, taxInput |-> run.taxInput]
           /\ lastCalculation' = <<taxResult>>
           /\ saveCalls' = saveCalls + 1
    /\ computedFrom' = <<run.taxInput>>
    /\ Finally
    /\ run' = [pc |-> "idle", ended |-> "resolved"]
    /\ calls' = [calls EXCEPT ![ComponentCall] = [pc |-> "idle"]]
    /\ UNCHANGED <<input, out, taxInputState, cache, executed, started, authVars>>

\* the await throws: catch logs the error, then finally
CalculateRejected ==
    /\ run.pc = "awaiting"
    /\ calls[ComponentCall].pc = "rejected"
    /\ Finally
    /\ run' = [pc |-> "idle", ended |-> "rejected"]
    /\ calls' = [calls EXCEPT ![ComponentCall] = [pc |-> "idle"]]
    /\ UNCHANGED <<input, out, taxInputState, result, optimizationSuggestions,
                   lastCalculation, computedFrom, saveCalls, cache, executed, started,
                   authVars>>

\* a step of a run of calculateTax after the click
RunStep == ComponentCallStep \/ CalculateResolved \/ CalculateRejected

NextCalculator ==
    \/ \E name \in {"income", "deductions"}, value \in TypedTexts :
           HandleInputChange(name, value)
    \/ \E regime \in Regimes : HandleRegimeChange(regime)
    \/ \E checked \in BOOLEAN : HandleCheckboxChange(checked)
    \/ ClickCalculate
    \/ ComponentCallStep
    \/ CalculateResolved
    \/ CalculateRejected

SpecCalculator == InitFluid /\ [][NextCalculator]_vars

\* promise reactions and timers are run by the event loop: a step of a run
\* that can be taken is taken
FairSpecCalculator == SpecCalculator /\ WF_vars(RunStep)

(***************************************************************************)
(* The AuthProvider (login, verifyTwoFactorCode, logout) and the login     *)
(* form.  One call of login or verifyTwoFactorCode is under way at a time; *)
(* a call reads the AuthState of the render it was made from, which is the *)
(* state at its start.  The clock advances at any moment.                  *)
(***************************************************************************)
MAX_LOGIN_ATTEMPTS == 5

LOCKOUT_DURATION == 30 * 60 * 1000

\* the clock advances in steps of ten minutes
ClockStep == 10 * 60 * 1000

\* the most steps of the clock in a behaviour
MaxClockSteps == 4

\* the most calls of login and verifyTwoFactorCode in a behaviour
MaxAuthCalls == 7

\* the e-mail addresses, passwords and codes entered
Emails == {"", "user@example.com", "secure@example.com"}

Passwords == {"", "password", "Passw0rd!"}

Codes == {"", "12345", "12345a", "123456"}

\* /\S+@\S+\.\S+/.test(email), on the addresses entered
EmailFormat(email) == email \in {"user@example.com", "secure@example.com"}

\* credentials.email.includes('secure'), on the addresses entered
IncludesSecure(email) == email = "secure@example.com"

\* PASSWORD_REGEX.test(password): eight or more characters with a lower-case
\* letter, an upper-case letter, a digit and one of @$!%*?&
validatePassword(password) == password = "Passw0rd!"

\* code.length === 6 && /^\d+$/.test(code), on the codes entered
SixDigits(code) == code = "123456"

\* validateForm of the login form
validateForm(email, password) == email # "" /\ EmailFormat(email) /\ password # ""

\* validateTwoFactorCode of the login form
validateTwoFactorCode(twoFactorCode) == twoFactorCode # "" /\ SixDigits(twoFactorCode)

\* a plausible slip: the account is locked one attempt late
MaxAttemptsReached_Late(newAttempts) == newAttempts > MAX_LOGIN_ATTEMPTS

\* newAttempts >= MAX_LOGIN_ATTEMPTS
MaxAttemptsReached(newAttempts) == newAttempts >= MAX_LOGIN_ATTEMPTS

\* state.accountLocked with state.lockoutUntil && Date.now() < state.lockoutUntil
LockedOut(authState) ==
    /\ authState.accountLocked
    /\ authState.lockoutUntil # Null
    /\ now < authState.lockoutUntil[1]

\* what a step of the AuthProvider leaves alone
AuthFrame == UNCHANGED <<input, out, calculatorVars, fluidVars>>

\* the mount effect: checkAuth finds no authToken in localStorage, which
\* nothing writes
CheckAuth ==
    /\ authCall.pc = "checkAuth"
    /\ state' = [state EXCEPT !.isLoading = FALSE, !.isAuthenticated = FALSE,
                              !.error = Null]
    /\ authCall' = [pc |-> "idle", threw |-> FALSE]
    /\ UNCHANGED <<now, authCalls, failures, onSuccessCalls>>
    /\ AuthFrame

\* time passes
Tick ==
    /\ now < MaxClockSteps * ClockStep
    /\ now' = now + ClockStep
    /\ UNCHANGED <<state, authCall, authCalls, failures, onSuccessCalls>>
    /\ AuthFrame

\* login(credentials) up to its await, called by the login form (form), which
\* is rendered and enabled, or by another consumer of the context.  A locked
\* account throws at once: catch sets the error and rethrows.
Login(credentials, form) ==
    /\ authCall.pc = "idle"
    /\ authCalls < MaxAuthCalls
    /\ form => /\ ~state.isLoading /\ ~state.accountLocked /\ ~state.requiresTwoFactor
               /\ validateForm(credentials.email, credentials.password)
    /\ authCalls' = authCalls + 1
    /\ IF LockedOut(state)
         THEN /\ state' = [state EXCEPT !.isLoading = FALSE, !.error = <<"Account is locked">>]
              /\ authCall' = [pc |-> "idle", threw |-> TRUE]
         ELSE /\ state' = IF state.accountLocked
                            THEN [state EXCEPT !.isLoading = TRUE, !.error = Null,
                                               !.accountLocked = FALSE,
                                               !.lockoutUntil = Null,
                                               !.loginAttempts = 0]
                            ELSE [state EXCEPT !.isLoading = TRUE, !.error = Null]
              /\ authCall' = [pc |-> "login", credentials |-> credentials,
                              closure |-> state, form |-> form]
    /\ UNCHANGED <<now, failures, onSuccessCalls>>
    /\ AuthFrame

\* login after its await; the form then calls onSuccess unless the
\* requiresTwoFactor of its render, authCall.closure.requiresTwoFactor, is set
LoginSettled ==
    /\ authCall.pc = "login"
    /\ IF ~validatePassword(authCall.credentials.password)
         THEN LET newAttempts == authCall.closure.loginAttempts + 1
              IN  /\ state' =
                        IF MaxAttemptsReached(newAttempts)
                          THEN [state EXCEPT !.loginAttempts = newAttempts,
                                             !.accountLocked = TRUE,
                                             !.lockoutUntil = <<now + LOCKOUT_DURATION>>,
                                             !.isLoading = FALSE,
                                             !.error = <<"account_locked">>]
                          ELSE [state EXCEPT !.loginAttempts = newAttempts,
                                             !.isLoading = FALSE,
                                             !.error = <<"Invalid email or password">>]
                  /\ authCall' = [pc |-> "idle", threw |-> TRUE]
                  /\ failures' = failures + 1
                  /\ UNCHANGED onSuccessCalls
         ELSE /\ state' =
                    IF IncludesSecure(authCall.credentials.email)
                      THEN [state EXCEPT !.requiresTwoFactor = TRUE, !.isLoading = FALSE,
                                         !.user = <<[email |-> authCall.credentials.email,
                                                     id |-> ""]>>]
                      ELSE [state EXCEPT !.user = <<[email |-> authCall.credentials.email,
                                                     id |-> "1"]>>,
                                         !.isAuthenticated = TRUE, !.isLoading = FALSE,
                                         !.loginAttempts = 0]
              /\ authCall' = [pc |-> "idle", threw |-> FALSE]
              /\ failures' = 0
              /\ onSuccessCalls' =
                     IF authCall.form /\ ~authCall.closure.requiresTwoFactor
                       THEN onSuccessCalls + 1 ELSE onSuccessCalls
    /\ UNCHANGED <<now, authCalls>>
    /\ AuthFrame

\* verifyTwoFactorCode(code) up to its await, called by the login form after
\* validateTwoFactorCode, or by another consumer of the context
VerifyTwoFactorCode(code, form) ==
    /\ authCall.pc = "idle"
    /\ authCalls < MaxAuthCalls
    /\ form => /\ ~state.isLoading /\ ~state.accountLocked /\ state.requiresTwoFactor
               /\ validateTwoFactorCode(code)
    /\ authCalls' = authCalls + 1
    /\ state' = [state EXCEPT !.isLoading = TRUE, !.error = Null]
    /\ authCall' = [pc |-> "verify", code |-> code, closure |-> state, form |-> form]
    /\ UNCHANGED <<now, failures, onSuccessCalls>>
    /\ AuthFrame

\* verifyTwoFactorCode after its await; the form calls onSuccess on true
VerifySettled ==
    /\ authCall.pc = "verify"
    /\ LET success == SixDigits(authCall.code) /\ authCall.closure.user # Null
       IN  /\ state' =
                 IF ~SixDigits(authCall.code)
                   THEN [state EXCEPT !.isLoading = FALSE,
                                      !.error = <<"Invalid verification code">>]
                 ELSE IF authCall.closure.user # Null
                   THEN [state EXCEPT !.user = <<[email |-> authCall.closure.user[1].email,
                                                  id |-> "1"]>>,
                                      !.isAuthenticated = TRUE,
                                      !.requiresTwoFactor = FALSE,
                                      !.isLoading = FALSE]
                 ELSE state
           /\ onSuccessCalls' =
                  IF authCall.form /\ success THEN onSuccessCalls + 1 ELSE onSuccessCalls
    /\ authCall' = [pc |-> "idle", threw |-> FALSE]
    /\ UNCHANGED <<now, authCalls, failures>>
    /\ AuthFrame

\* logout()
Logout ==
    /\ authCall.pc = "idle"
    /\ state.isAuthenticated
    /\ state' = [state EXCEPT !.user = Null, !.isAuthenticated = FALSE,
                              !.requiresTwoFactor = FALSE]
    /\ UNCHANGED <<now, authCall, authCalls, failures, onSuccessCalls>>
    /\ AuthFrame

NextAuth ==
    \/ CheckAuth
    \/ Tick
    \/ \E email \in Emails, password \in Passwords, form \in BOOLEAN :
           Login([email |-> email, password |-> password], form)
    \/ LoginSettled
    \/ \E code \in Codes, form \in BOOLEAN : VerifyTwoFactorCode(code, form)
    \/ VerifySettled
    \/ Logout

SpecAuth == InitFluid /\ [][NextAuth]_vars

(***************************************************************************)
(* Properties                                                              *)
(***************************************************************************)
FromCalculator == out.routine = "calculator"

FromForRegime == out.routine = "forRegime"

\* the service returned a result (it did not throw)
FromService == out.routine = "service" /\ ~out.result.thrown

FromDirect == out.routine = "direct"

FromSuggestions == out.routine = "suggestions"

\* the rebate threshold and the rebate of a regime
RebateThreshold(regime) == IF regime = "old" THEN 500000 ELSE 700000

RebateAmount(regime) == IF regime = "old" THEN N(12500) ELSE N(25000)

\* the progressive slab tax of a regime over the calculator's brackets
SlabTaxOf(regime, taxableIncome) ==
    IF regime = "old" THEN OldSlabTax(taxableIncome) ELSE NewSlabTax(taxableIncome)

\* C1: in either regime, when the taxable income is at or below the regime's
\* rebate threshold, the income tax the calculator reports is
\* max(0, slab tax - rebate) and the total tax is 0; old regime, salaried,
\* income 600000 and deductions 150000 give taxable income 400000 and total
\* tax 0.
C1_RebateGivesZeroTax ==
    FromCalculator =>
        /\ out.result.taxableIncome <= RebateThreshold(input.regime) =>
              /\ out.result.incomeTax =
                    MaxN(Zero, Sub(SlabTaxOf(input.regime, out.result.taxableIncome),
                                   RebateAmount(input.regime)))
              /\ out.result.totalTax = Zero
        /\ (input.regime = "old" /\ input.isSalaried /\ input.income = 600000
              /\ input.deductions = 150000) =>
              /\ out.result.taxableIncome = 400000
              /\ out.result.totalTax = Zero

RECURSIVE SumTax(_)
SumTax(taxBreakdown) ==
    IF taxBreakdown = <<>> THEN Zero
    ELSE Add(SumTax(Tail(taxBreakdown)), Head(taxBreakdown).tax)

RECURSIVE SumTaxableAmount(_)
SumTaxableAmount(taxBreakdown) ==
    IF taxBreakdown = <<>> THEN 0
    ELSE SumTaxableAmount(Tail(taxBreakdown)) + Head(taxBreakdown).taxableAmount

\* C3: in calculateTaxDirectly, for a taxable income >= 0, the taxes of the
\* entries of taxBreakdown sum to basicTax, each entry's tax is its
\* taxableAmount times its rate, the taxableAmounts sum to the taxable income,
\* and the entries follow the slabs upwards, each filled before the next.
C3_BreakdownSumsToBasicTax ==
    (FromDirect /\ out.result.taxableIncome >= 0) =>
        LET b == out.result.taxBreakdown
        IN  /\ SumTax(b) = out.result.basicTax
            /\ SumTaxableAmount(b) = out.result.taxableIncome
            /\ \A i \in 1..Len(b) :
                  /\ b[i].tax = MulRat(N(b[i].taxableAmount), b[i].rate, 100)
                  /\ b[i].taxableAmount > 0
                  /\ b[i].taxableAmount <= b[i].slabEnd - b[i].slabStart
                  /\ i < Len(b) =>
                        /\ b[i].taxableAmount = b[i].slabEnd - b[i].slabStart
                        /\ b[i + 1].slabStart = b[i].slabEnd

C3_Witness ==
    /\ FromDirect
    /\ Len(out.result.taxBreakdown) >= 3
    /\ Lt(Zero, out.result.basicTax)
    /\ out.result.taxBreakdown[3].taxableAmount
          < out.result.taxBreakdown[3].slabEnd - out.result.taxBreakdown[3].slabStart

\* C4: for a fixed regime, salaried flag and deductions, a gross income that
\* is not larger never has a larger total tax, in the calculator's
\* calculateTax and in calculateTaxForRegime.
C4_TotalTaxMonotone ==
    /\ FromCalculator =>
          \A g \in Incomes :
              g <= input.income =>
                  Le(calculateTax([input EXCEPT !.income = g]).totalTax, out.result.totalTax)
    /\ FromForRegime =>
          \A g \in Incomes :
              g <= input.income =>
                  Le(calculateTaxForRegime([input EXCEPT !.income = g]), out.tax)

\* an income past the top surcharge threshold, taxed more than one below it
C4_Witness ==
    /\ FromCalculator
    /\ out.result.taxableIncome > 50000000
    /\ \E g \in Incomes :
          /\ g < input.income
          /\ TaxableIncome([input EXCEPT !.income = g]) > 20000000
          /\ Lt(calculateTax([input EXCEPT !.income = g]).totalTax, out.result.totalTax)

\* C5: new regime, salaried, taxable income t with 700000 < t <= 1000000: the
\* calculator reports income tax 20000 + (t - 700000) * 0.10, cess 4% of it,
\* surcharge 0 and total tax = income tax + cess; income 1000000 gives taxable
\* income 925000, income tax 42500, cess 1700 and total tax 44200.
C5_NewRegimeThirdSlab ==
    (FromCalculator /\ input.regime = "new" /\ input.isSalaried) =>
        LET r == out.result
            t == r.taxableIncome
        IN  /\ (700000 < t /\ t <= 1000000) =>
                  /\ r.incomeTax = Add(N(20000), MulRat(N(t - 700000), 10, 100))
                  /\ r.cess = MulRat(r.incomeTax, 4, 100)
                  /\ r.surcharge = Zero
                  /\ r.totalTax = Add(r.incomeTax, r.cess)
            /\ input.income = 1000000 =>
                  /\ t = 925000
                  /\ r.incomeTax = N(42500)
                  /\ r.cess = N(1700)
                  /\ r.totalTax = N(44200)

C5_Witness ==
    /\ FromCalculator
    /\ input.regime = "new"
    /\ input.isSalaried
    /\ input.income = 1000000
    /\ out.result.totalTax = N(44200)

\* the surcharge percentage the tiers give a taxable income
SurchargePercent(t) ==
    IF t <= 5000000 THEN 0
    ELSE IF t <= 10000000 THEN 10
    ELSE IF t <= 20000000 THEN 15
    ELSE IF t <= 50000000 THEN 25
    ELSE 37

\* C6: the surcharge of the calculator and of the tax-information service is 0
\* up to a taxable income of 5000000 and 10%, 15%, 25%, 37% of the income tax
\* in (5000000, 10000000], (10000000, 20000000], (20000000, 50000000] and
\* above 50000000; the percentage never decreases as the taxable income grows.
C6_SurchargeTiers ==
    (FromCalculator \/ FromService) =>
        /\ out.result.surcharge =
              MulRat(out.result.incomeTax, SurchargePercent(out.result.taxableIncome), 100)
        /\ \A g \in Incomes :
              g <= out.result.taxableIncome =>
                  SurchargePercent(g) <= SurchargePercent(out.result.taxableIncome)

\* old regime, taxable income 6000000, surcharge 10% of the base tax
C6_Witness ==
    /\ FromCalculator
    /\ input.regime = "old"
    /\ out.result.taxableIncome = 6000000
    /\ out.result.incomeTax = N(1612500)
    /\ out.result.surcharge = N(161250)

\* C7: in the calculator and in the tax-information service the cess is 4% of
\* the income tax alone, the surcharge being no part of its base.
C7_CessOnIncomeTaxAlone ==
    (FromCalculator \/ FromService) =>
        out.result.cess = MulRat(out.result.incomeTax, 4, 100)

\* C8: for a gross income > 0 the effective rate of the calculator is
\* totalTax / grossIncome * 100, the gross income being the income before the
\* standard deduction and the other deductions.
C8_EffectiveRateOverGrossIncome ==
    (FromCalculator /\ input.income > 0) =>
        out.result.effectiveRate = Percent(out.result.totalTax, input.income)

\* the effective rate a routine reports
ReportedRate ==
    IF FromService THEN out.result.effectiveTaxRate ELSE out.result.effectiveRate

\* the gross income a routine was given
GrossIncome == IF FromDirect THEN out.result.totalIncome ELSE input.income

\* C9: for a gross income of 0 the calculator, calculateTaxDirectly and the
\* tax-information service report an effective rate of exactly 0.
C9_ZeroIncomeZeroRate ==
    ((FromCalculator \/ FromService \/ FromDirect) /\ GrossIncome = 0) =>
        ReportedRate = Finite(Zero)

\* the taxable income the rule gives an input
RuleStandardDeduction(in) ==
    IF ~in.isSalaried THEN 0 ELSE IF in.regime = "new" THEN 75000 ELSE 50000

RuleTaxableIncome(in) ==
    LET t == in.income - RuleStandardDeduction(in)
               - (IF in.regime = "old" THEN in.deductions ELSE 0)
    IN  IF t > 0 THEN t ELSE 0

\* C10: in the calculator and in calculateTaxForRegime the standard deduction
\* is 75000 (salaried, new regime), 50000 (salaried, old regime) or 0 (not
\* salaried), and the taxable income is
\* max(0, income - standard deduction - (deductions in the old regime)), never
\* negative.
C10_TaxableIncome ==
    /\ FromCalculator =>
          /\ out.result.standardDeduction = RuleStandardDeduction(input)
          /\ out.result.taxableIncome = RuleTaxableIncome(input)
          /\ out.result.taxableIncome >= 0
    /\ FromForRegime =>
          /\ ForRegimeTaxableIncome(input) = RuleTaxableIncome(input)
          /\ out.tax = MulRat(ForRegimeTax(input.regime, RuleTaxableIncome(input)), 104, 100)

\* a salaried filer whose deductions exceed the income: the clamp acts
C10_Witness ==
    /\ FromCalculator
    /\ input.isSalaried
    /\ input.regime = "old"
    /\ input.deductions > 0
    /\ input.income - 50000 - input.deductions < 0
    /\ out.result.taxableIncome = 0
    /\ out.result.standardDeduction = 50000

\* C11: two new-regime inputs that differ only in the deductions have the
\* same result in the calculator, in calculateTaxForRegime and in the
\* tax-information service.
C11_NewRegimeIgnoresDeductions ==
    input.regime = "new" =>
        \A d \in Deductions :
            /\ FromCalculator => calculateTax([input EXCEPT !.deductions = d]) = out.result
            /\ FromForRegime => calculateTaxForRegime([input EXCEPT !.deductions = d]) = out.tax
            /\ FromService => serviceCalculateTax(input.income, d, out.regime) = out.result

\* a new-regime filer with deductions entered and tax to pay
C11_Witness ==
    /\ FromCalculator
    /\ input.regime = "new"
    /\ input.deductions > 0
    /\ Lt(Zero, out.result.totalTax)

\* the income tax a routine reports
ReportedIncomeTax == IF FromDirect THEN out.result.basicTax ELSE out.result.incomeTax

\* the surcharge a routine reports (calculateTaxDirectly has none)
ReportedSurcharge == IF FromDirect THEN Zero ELSE out.result.surcharge

\* C12: for a gross income of 0 or less and non-negative deductions the
\* calculator, the tax-information service and calculateTaxDirectly return a
\* well-formed result (every amount a finite number) with income tax 0,
\* cess 0, surcharge 0 and total tax 0.
C12_NonPositiveIncomeZeroTax ==
    ((FromCalculator \/ FromService \/ FromDirect) /\ GrossIncome <= 0 /\ input.deductions >= 0) =>
        /\ ReportedIncomeTax = Zero
        /\ ReportedSurcharge = Zero
        /\ out.result.cess = Zero
        /\ out.result.totalTax = Zero
        /\ ReportedRate.kind = "finite"

\* the part of C12 that the code satisfies: the four tax amounts are 0
C12_AmountsAreZero ==
    ((FromCalculator \/ FromService \/ FromDirect) /\ GrossIncome <= 0 /\ input.deductions >= 0) =>
        /\ ReportedIncomeTax = Zero
        /\ ReportedSurcharge = Zero
        /\ out.result.cess = Zero
        /\ out.result.totalTax = Zero

\* C13: a lookup of the bracket tables for a financial year other than
\* 2024-25 does not answer with the 2024-25 tables, and the service's
\* calculateTax throws for a regime that has no table.
C13_MissingTableFailsLoudly ==
    /\ (out.routine = "getTaxSlabs" /\ out.financialYear # "2024-25") =>
           out.result # TAX_SLABS_2024_25
    /\ (out.routine = "service" /\ out.regime \notin Regimes) => out.result.thrown

\* an input the rule calls invalid: a negative income or negative deductions
InvalidInput == input.income < 0 \/ input.deductions < 0

\* C14: for a negative income, negative deductions or a regime that is
\* neither old nor new, the calculator and the tax-information service
\* produce no result: the call is rejected before anything is computed.
C14_InvalidInputRejected ==
    /\ ~(FromCalculator /\ InvalidInput)
    /\ (out.routine = "service" /\ (InvalidInput \/ out.regime \notin Regimes)) =>
           out.result.thrown

\* the part of C14 that the code satisfies: the service throws for a regime
\* that is neither old nor new
C14_UnknownRegimeRejected ==
    (out.routine = "service" /\ out.regime \notin Regimes) => out.result.thrown

\* the upper bound of the zero-rate bracket the rule gives an age
ExemptionLimit(age) == IF age < 60 THEN 250000 ELSE IF age < 80 THEN 300000 ELSE 500000

\* the part of taxableIncome between lower and upper
Between(taxableIncome, lower, upper) ==
    LET top == IF taxableIncome < upper THEN taxableIncome ELSE upper
    IN  IF top > lower THEN top - lower ELSE 0

\* the old-regime tax of the rule: nothing up to the exemption limit, 5% up to
\* 500000, 20% up to 1000000 and 30% above
RuleOldRegimeTax(taxableIncome, limit) ==
    Add(Add(MulRat(N(Between(taxableIncome, limit, 500000)), 5, 100),
            MulRat(N(Between(taxableIncome, 500000, 1000000)), 20, 100)),
        MulRat(N(Between(taxableIncome, 1000000, Infinity)), 30, 100))

\* C15: in calculateTaxDirectly under the old regime the zero-rate bracket
\* ends at 250000 below the age of 60, at 300000 from 60 and at 500000 from
\* 80, the other brackets keeping their bounds and rates, so that an older
\* filer never pays more for the same income; under the new regime the
\* result does not depend on the age.
C15_SeniorBracketShift ==
    FromDirect =>
        /\ input.regime = "old" =>
               /\ out.result.basicTax =
                      RuleOldRegimeTax(out.result.taxableIncome, ExemptionLimit(out.age))
               /\ \A age \in Ages :
                      age >= out.age =>
                          Le(calculateTaxDirectly(input.income, out.otherIncome,
                                                  input.deductions, age, "old").totalTax,
                             out.result.totalTax)
        /\ input.regime = "new" =>
               \A age \in Ages :
                   calculateTaxDirectly(input.income, out.otherIncome,
                                        input.deductions, age, "new") = out.result

\* a filer of 80 whose taxable income of 400000 is all in the zero-rate bracket
C15_Witness ==
    /\ FromDirect
    /\ input.regime = "old"
    /\ out.age >= 80
    /\ out.result.taxableIncome = 400000
    /\ out.result.totalTax = Zero
    /\ Lt(Zero, calculateTaxDirectly(input.income, out.otherIncome,
                                     input.deductions, 60, "old").totalTax)

\* the total tax of the input under a regime, as the optimizer compares it
RegimeTotal(regime) == calculateTaxForRegime([input EXCEPT !.regime = regime])

\* the suggestions of the list with the id
WithId(id) == {i \in 1..Len(out.suggestions) : out.suggestions[i].id = id}

\* the other regime
OtherRegime(regime) == IF regime = "old" THEN "new" ELSE "old"

\* C16: the list holds the suggestion to switch to the other regime exactly
\* when the other regime's total tax is strictly lower, its potentialSaving
\* is the difference of the two totals, and the list never suggests a switch
\* to the regime already selected.
C16_RegimeSwitchSuggestion ==
    FromSuggestions =>
        LET selected == RegimeTotal(input.regime)
            other    == RegimeTotal(OtherRegime(input.regime))
            toOther  == WithId("switch-to-" \o OtherRegime(input.regime))
            toSame   == WithId("switch-to-" \o input.regime)
        IN  /\ toSame = {}
            /\ Lt(other, selected) =>
                   /\ Cardinality(toOther) = 1
                   /\ \A i \in toOther :
                          out.suggestions[i].potentialSaving = Sub(selected, other)
            /\ ~Lt(other, selected) => toOther = {}

\* a new-regime filer for whom the old regime is cheaper is told to switch
C16_Witness ==
    /\ FromSuggestions
    /\ input.regime = "new"
    /\ Lt(RegimeTotal("old"), RegimeTotal("new"))
    /\ WithId("switch-to-old") # {}

\* C17: the total calculateTaxForRegime returns for an input is the totalTax
\* the calculator's calculateTax returns for the same input and regime.
C17_ComparisonIsTheCalculatorsTax ==
    FromForRegime => out.tax = calculateTax(input).totalTax

\* the same, away from the rebate of C1: where no rebate applies
C17_AboveTheRebate ==
    (FromForRegime /\ TaxableIncome(input) > RebateThreshold(input.regime)) =>
        out.tax = calculateTax(input).totalTax

\* the part of C17 that the code satisfies: the two totals agree where
\* neither the rebate nor a surcharge applies
C17_AgreesWithoutRebateAndSurcharge ==
    (FromForRegime /\ TaxableIncome(input) > RebateThreshold(input.regime)
                   /\ TaxableIncome(input) <= 5000000) =>
        out.tax = calculateTax(input).totalTax

\* the rate, in percent, of the old-regime bracket that holds a taxable income
OldBracketRate(taxableIncome) ==
    IF taxableIncome <= 250000 THEN 0
    ELSE IF taxableIncome <= 500000 THEN 5
    ELSE IF taxableIncome <= 1000000 THEN 20
    ELSE 30

\* headroom * r * 1.04, r the rate of the bracket of the input's taxable income
HeadroomSaving(headroom) ==
    MulRat(MulRat(N(headroom), OldBracketRate(TaxableIncome(input)), 100), 104, 100)

\* the headroom of a deduction suggestion
Headroom(id) ==
    IF id = "maximize-80c" THEN 150000 - input.deductions
    ELSE IF id = "health-insurance" THEN 25000
    ELSE 200000

HeadroomIds == {"maximize-80c", "health-insurance", "home-loan-interest"}

\* C18: under the old regime the list holds maximize-80c exactly when the
\* deductions are below 150000, and health-insurance and home-loan-interest
\* always; the potentialSaving of each is its headroom times the rate of the
\* old-regime bracket that holds the filer's taxable income times 1.04.
C18_HeadroomSavings ==
    (FromSuggestions /\ input.regime = "old") =>
        /\ (WithId("maximize-80c") # {}) <=> (input.deductions < 150000)
        /\ WithId("health-insurance") # {}
        /\ WithId("home-loan-interest") # {}
        /\ \A i \in 1..Len(out.suggestions) :
               out.suggestions[i].id \in HeadroomIds =>
                   out.suggestions[i].potentialSaving =
                       HeadroomSaving(Headroom(out.suggestions[i].id))

\* the part of C18 that the code satisfies: which suggestions are listed, and
\* the savings with the rate read off the gross income
C18_SavingsAtGrossIncomeRate ==
    (FromSuggestions /\ input.regime = "old") =>
        /\ (WithId("maximize-80c") # {}) <=> (input.deductions < 150000)
        /\ WithId("health-insurance") # {}
        /\ WithId("home-loan-interest") # {}
        /\ \A i \in 1..Len(out.suggestions) :
               out.suggestions[i].id \in HeadroomIds =>
                   out.suggestions[i].potentialSaving =
                       MulRat(MulRat(N(Headroom(out.suggestions[i].id)),
                                     OldBracketRate(input.income), 100), 104, 100)

\* the place of a suggestion in the order the suggestions are pushed
PushOrder(id) ==
    IF id \in {"switch-to-new", "switch-to-old"} THEN 1
    ELSE IF id = "standard-deduction-benefit" THEN 2
    ELSE IF id = "maximize-80c" THEN 3
    ELSE IF id = "health-insurance" THEN 4
    ELSE IF id = "home-loan-interest" THEN 5
    ELSE 6

\* C19: the list is in order of potentialSaving, largest first, and two
\* suggestions that save the same stand in the order they were pushed.
C19_SortedBySaving ==
    FromSuggestions =>
        \A i, j \in 1..Len(out.suggestions) :
            i < j =>
                /\ Le(out.suggestions[j].potentialSaving, out.suggestions[i].potentialSaving)
                /\ out.suggestions[i].potentialSaving = out.suggestions[j].potentialSaving =>
                       PushOrder(out.suggestions[i].id) < PushOrder(out.suggestions[j].id)

\* a list where the sort moved a suggestion forward and two others tie at a
\* saving that is not 0
C19_Witness ==
    /\ FromSuggestions
    /\ \E i, j \in 1..Len(out.suggestions) :
           /\ i < j
           /\ PushOrder(out.suggestions[j].id) < PushOrder(out.suggestions[i].id)
    /\ \E i, j \in 1..Len(out.suggestions) :
           /\ i < j
           /\ out.suggestions[i].potentialSaving = out.suggestions[j].potentialSaving
           /\ Lt(Zero, out.suggestions[i].potentialSaving)

FromCorrectSkew == out.routine = "correctSkew"

\* expectedTotal less the sum of the parts
Drift == Sub(input.expectedTotal, SumSeq(input.parts))

\* C20: for parts that are not empty and whose sum is less than 0.01 away
\* from expectedTotal, correctSkew returns the parts with the whole
\* difference added to the largest of them, so that they sum to
\* expectedTotal exactly; so for <<100.004, 4.001, 0>> and 104.
C20_SmallDriftReconciled ==
    (FromCorrectSkew /\ input.parts # <<>> /\ Lt(Abs(Drift), Tolerance)) =>
        /\ SumSeq(out.result) = input.expectedTotal
        /\ out.result =
               [input.parts EXCEPT ![IndexOf(input.parts, MaxOf(input.parts))] = Add(@, Drift)]

\* what the code does with a difference below 0.01: nothing
C20_SmallDriftLeftAlone ==
    (FromCorrectSkew /\ Lt(Abs(Drift), Tolerance)) => out.result = input.parts

\* what the code does with a difference of 0.01 or more: the whole of it is
\* added to the first largest part, and the parts then sum to expectedTotal
C20_LargeDriftReconciled ==
    (FromCorrectSkew /\ input.parts # <<>> /\ ~Lt(Abs(Drift), Tolerance)) =>
        /\ SumSeq(out.result) = input.expectedTotal
        /\ out.result =
               [input.parts EXCEPT ![IndexOf(input.parts, MaxOf(input.parts))] = Add(@, Drift)]

FromNormalize == out.routine = "normalizeTaxComponents"

\* the components normalizeTaxComponents was given
GivenComponents ==
    [incomeTax |-> input.parts[1], cess |-> input.parts[2], surcharge |-> input.parts[3]]

\* C21: when the sum of the parts is more than 0.01 away from expectedTotal,
\* correctSkew and normalizeTaxComponents raise an error to the caller and
\* hand back no adjusted parts.
C21_LargeDriftSurfaced ==
    Lt(Tolerance, Abs(Drift)) =>
        /\ FromCorrectSkew => (out.thrown /\ out.result = input.parts)
        /\ FromNormalize => (out.thrown /\ out.result = GivenComponents)

\* what the code does with such a drift: the parts come back adjusted, one of
\* them changed, and nothing is raised
C21_LargeDriftAdjustedSilently ==
    (Lt(Tolerance, Abs(Drift)) /\ input.parts # <<>>) =>
        /\ FromCorrectSkew => (~out.thrown /\ out.result # input.parts)
        /\ FromNormalize => (~out.thrown /\ out.result # GivenComponents)
        /\ out.routine = "detectSkew" =>
               (out.result.hasSkew /\ out.result.correctedValue = input.expectedTotal)

\* the places where the result of correctSkew differs from the parts
Changed == {i \in 1..Len(input.parts) : out.result[i] # input.parts[i]}

\* a part is of the largest magnitude
LargestMagnitude(i) == \A j \in 1..Len(input.parts) : Le(Abs(input.parts[j]), Abs(input.parts[i]))

\* a part is of the largest value
LargestValue(i) == \A j \in 1..Len(input.parts) : Le(input.parts[j], input.parts[i])

\* C23: correctSkew returns as many parts as it was given and leaves its
\* argument as it was; when the result differs from the parts, it differs in
\* exactly one place, a part of the largest magnitude, which has the whole
\* difference added.
C23_CorrectSkewFrame ==
    FromCorrectSkew =>
        /\ Len(out.result) = Len(input.parts)
        /\ out.result # input.parts =>
               /\ Cardinality(Changed) = 1
               /\ \A i \in Changed :
                      /\ LargestMagnitude(i)
                      /\ out.result[i] = Add(input.parts[i], Drift)

\* what the code does: the one part changed is the first of the largest
\* VALUE, whatever the magnitudes
C23_LargestValueChanged ==
    FromCorrectSkew =>
        /\ Len(out.result) = Len(input.parts)
        /\ out.result # input.parts =>
               /\ Cardinality(Changed) = 1
               /\ \A i \in Changed :
                      /\ LargestValue(i)
                      /\ \A j \in 1..(i - 1) : input.parts[j] # input.parts[i]
                      /\ out.result[i] = Add(input.parts[i], Drift)

FromValidate == out.routine = "validate"

\* C24: validateTaxCalculation returns the calculated tax when it is within
\* max(0.5% of the slab tax, 1) of the slab tax of the taxable income, and
\* the slab tax otherwise; so its result is always within that tolerance of
\* the slab tax, and a slab tax reduced by more than the tolerance comes
\* back unreduced.
C24_ValidateTolerance ==
    FromValidate =>
        LET expectedTax == SlabTaxOf(input.regime, out.taxableIncome)
            tolerance   == MaxN(MulRat(expectedTax, 5, 1000), N(1))
            difference  == Abs(Sub(expectedTax, out.calculatedTax))
        IN  /\ Le(difference, tolerance) => out.result = out.calculatedTax
            /\ Lt(tolerance, difference) => out.result = expectedTax
            /\ Le(Abs(Sub(expectedTax, out.result)), tolerance)

\* a slab tax of 7500 handed over as 0 after the rebate comes back as 7500
C24_Witness ==
    /\ FromValidate
    /\ out.taxableIncome = 400000
    /\ input.regime = "old"
    /\ out.calculatedTax = Zero
    /\ out.result = N(7500)

\* a calculated tax exactly the tolerance away from the slab tax is kept
C24_WitnessAtTolerance ==
    /\ FromValidate
    /\ out.result = out.calculatedTax
    /\ out.result # SlabTaxOf(input.regime, out.taxableIncome)

\* C25: for a regime and a taxable income, the slab tax the tax-information
\* service computes from TAX_SLABS_2024_25 is the slab tax of the
\* calculator's brackets, and of calculateTaxForRegime where it applies no
\* rebate.
C25_OneTablePerRegime ==
    FromService =>
        LET taxableIncome == out.result.taxableIncome
        IN  /\ out.result.incomeTax = SlabTaxOf(out.regime, taxableIncome)
            /\ taxableIncome > RebateThreshold(out.regime) =>
                   out.result.incomeTax = ForRegimeTax(out.regime, taxableIncome)

\* the part of C25 that the code satisfies: the old-regime tables agree, and
\* the calculator and calculateTaxForRegime agree in both regimes
C25_OldRegimeTablesAgree ==
    /\ (FromService /\ out.regime = "old") =>
           out.result.incomeTax = SlabTaxOf("old", out.result.taxableIncome)
    /\ (FromForRegime /\ TaxableIncome(input) > RebateThreshold(input.regime)) =>
           ForRegimeTax(input.regime, TaxableIncome(input))
               = SlabTaxOf(input.regime, TaxableIncome(input))

\* C22: whatever the device tier, the path (worker, progressive, standard)
\* or a cache hit, the value a call of fluidCalculate resolves to is the
\* value of the calculation function on the input of that call.
C22_StrategyHasNoEffect ==
    \A c \in CallIds :
        calls[c].pc = "resolved" => calls[c].value = calculationFn(calls[c].input, Null)

\* a call answered from the cache, after a call that went the progressive way
C22_Witness ==
    \E c, d \in CallIds :
        /\ calls[c].pc = "resolved" /\ calls[c].path = "cache"
        /\ calls[d].pc = "resolved" /\ calls[d].path = "progressive"
        /\ calls[c].input = calls[d].input

\* C26: between two clearings of the cache the calculation function is
\* executed at most once for a cache key, also when a second call with the
\* key starts before the first has resolved.
C26_ExecutedAtMostOnce ==
    \A cacheKey \in DOMAIN executed : executed[cacheKey] <= 1

\* C26, second half: a calculation that rejects leaves the cache as it was
\* and the call rejected.
C26_RejectionLeavesCache ==
    [][\A c \in CallIds :
          (calls[c].pc = "calculation" /\ calls[c].rejects /\ calls'[c].pc # "calculation")
              => (cache' = cache /\ calls'[c].pc = "rejected")]_vars

\* a run of calculateTax ends in this step
RunEnds == run.pc = "awaiting" /\ run'.pc = "idle"

\* C27: every run of calculateTax ends, with isCalculating = false and
\* calculationProgress = 0; a run whose computation threw leaves result,
\* optimizationSuggestions and the saved calculation as they were; a run
\* whose computation succeeded sets result and calls saveCalculation once,
\* with that result.
C27_CalculateLifecycle ==
    /\ isCalculating ~> (~isCalculating /\ calculationProgress = 0 /\ run.pc = "idle")
    /\ [][RunEnds =>
            /\ ~isCalculating' /\ calculationProgress' = 0
            /\ calls[ComponentCall].pc = "rejected" =>
                   UNCHANGED <<result, optimizationSuggestions, lastCalculation, saveCalls>>
            /\ calls[ComponentCall].pc = "resolved" =>
                   /\ result' = <<calls[ComponentCall].value>>
                   /\ lastCalculation' = result'
                   /\ saveCalls' = saveCalls + 1]_vars
    /\ [][saveCalls' # saveCalls => RunEnds]_vars

\* a run has ended after its computation threw
C27_Witness ==
    /\ run.pc = "idle" /\ ~isCalculating /\ calculationProgress = 0
    /\ run.ended = "rejected"
    /\ result = Null /\ saveCalls = 0

\* C28: whenever a result is on display, the gross income, the regime and the
\* other deductions displayed next to it are those of the input the result
\* was computed from.
C28_DisplayMatchesInput ==
    result # Null =>
        /\ taxInputState.income = computedFrom[1].income
        /\ taxInputState.regime = computedFrom[1].regime
        /\ taxInputState.deductions = computedFrom[1].deductions

\* a call of login starts in this step
LoginStarts == authCall.pc = "idle" /\ authCalls' = authCalls + 1 /\ authCall'.pc # "verify"

\* C29: the fifth failed login in a row locks the account, until 30 minutes
\* after that failure; a login started while the account is locked and the
\* time is before lockoutUntil fails with an error at once and changes neither
\* isAuthenticated nor loginAttempts.
C29_LoginLockout ==
    /\ [][(failures = MAX_LOGIN_ATTEMPTS - 1 /\ failures' = MAX_LOGIN_ATTEMPTS) =>
              /\ state'.accountLocked
              /\ state'.lockoutUntil = <<now + 30 * 60 * 1000>>]_vars
    /\ [][(LoginStarts /\ LockedOut(state)) =>
              /\ authCall'.pc = "idle" /\ authCall'.threw
              /\ state'.error # Null
              /\ state'.isAuthenticated = state.isAuthenticated
              /\ state'.loginAttempts = state.loginAttempts
              /\ state'.accountLocked]_vars

\* a login was refused, ten minutes after the fifth failure had locked the
\* account
C29_Witness ==
    /\ failures = MAX_LOGIN_ATTEMPTS
    /\ state.accountLocked /\ state.lockoutUntil = <<LOCKOUT_DURATION>>
    /\ now = ClockStep
    /\ authCall.pc = "idle" /\ authCall.threw
    /\ state.error = <<"Account is locked">>

\* C30: the login form calls onSuccess only when isAuthenticated is set: not
\* when the password step of a login with a second factor completes, only
\* when verifyTwoFactorCode has returned true.
C30_TwoFactorGate ==
    [][onSuccessCalls' # onSuccessCalls => state'.isAuthenticated]_vars

====
